---- MODULE Spec2Model ----
(***************************************************************************)
(* Model of opentelemetry/util/http/httplib.py: enrichment of HTTP client  *)
(* spans with the peer IP of the connection (NET_PEER_IP).                 *)
(*                                                                         *)
(* State: the spans (recording flag, NET_PEER_IP attribute), the list      *)
(* objects held by _ConnectionState values, the ambient context of every   *)
(* logical call path, the open set_ip_on_next_http_connection scopes, the  *)
(* connection's socket, and which http.client methods are wrapped.         *)
(* `last` records what the most recent operation did (its trysetip calls,  *)
(* the real method's invocation and the outcome the caller saw).           *)
(***************************************************************************)
EXTENDS Integers, Sequences, FiniteSets

\* ------------------------------------------------------------------ bounds
NSpans == 2
NPaths == 2
MaxScopes == 2
MaxLen == 4

Spans == 1..NSpans
Paths == 1..NPaths
\* identities of list objects: enough for every context and open scope to
\* reference a list of its own
ListIds == 1..(NPaths + MaxScopes - 1)

\* ------------------------------------------------------- values of the model
NoState == 0                  \* context.get_value(_STATE_KEY) is None
NoAttr == "unset"             \* NET_PEER_IP never set on the span
IPs == {"ipA", "ipB"}         \* addr[0] of a peer address with a non-empty host
\* conn.sock: None; a socket whose getpeername() raises; a socket whose
\* getpeername() returns a falsy addr or an addr with a falsy addr[0]; a
\* socket whose peer is (ip, port)
SockStates == {"none", "fail", "empty"} \cup IPs
LogLevels == {"DEBUG", "WARNING"}
Methods == {"send", "connect"}
ExitPaths == {"return", "error", "cancel"}

VARIABLES
    recording,   \* recording[s]: span.is_recording()
    attr,        \* attr[s]: the span's NET_PEER_IP attribute
    heap,        \* heap[l]: contents of list object l (state["need_ip"])
    cur,         \* cur[p]: _getstate() on path p (a list id, or NoState)
    scopes,      \* open scopes, in order of entry
    sock,        \* conn.sock of the connection
    wrapped,     \* wrapped[m]: http.client.HTTPConnection.m is wrapped
    last         \* what the last operation did

vars == <<recording, attr, heap, cur, scopes, sock, wrapped, last>>

\* --------------------------------------------------------------- helpers
Range(q) == {q[i] : i \in 1..Len(q)}

Count(q, s) == Cardinality({i \in 1..Len(q) : q[i] = s})

\* (variant: pop(0), the first element is removed instead of the last)
PopFirst(q) == SubSeq(q, 2, Len(q))

\* list.pop(): the last element is removed
Pop(q) == SubSeq(q, 1, Len(q) - 1)

RemoveAt(q, i) == SubSeq(q, 1, i - 1) \o SubSeq(q, i + 1, Len(q))

\* (variant: every occurrence is removed)
ListRemoveAll(q, s) == SelectSeq(q, LAMBDA x : x # s)

\* list.remove(x): removes the first occurrence; ValueError when absent
FirstIndex(q, s) == CHOOSE i \in 1..Len(q) : q[i] = s /\ \A j \in 1..(i - 1) : q[j] # s

\* try: spans.remove(span) except ValueError: pass
ListRemove(q, s) == IF s \in Range(q) THEN RemoveAt(q, FirstIndex(q, s)) ELSE q

\* (variant: every record is logged at WARNING)
LogAtWarning(level, msg) == [level |-> "WARNING", msg |-> msg]

\* a log record: logger.debug(msg) or logger.log(level, msg)
Log(level, msg) == [level |-> level, msg |-> msg]

\* ------------------------------------------------- _remove_nonrecording
\* (variant: the sweep takes every span for a recording one)
IsRecordingAlways(s) == TRUE

\* spanlist[idx].is_recording()
IsRecording(s) == recording[s]

\* The loop of _remove_nonrecording from index idx (1-based here) on list l;
\* logs are the debug records emitted so far, steps counts loop iterations.
RECURSIVE SweepFrom(_, _, _, _)
SweepFrom(l, idx, logs, steps) ==
    IF idx < 1 THEN [list |-> l, ret |-> TRUE, logs |-> logs, steps |-> steps]
    ELSE IF ~IsRecording(l[idx]) THEN
        LET islast == (idx = Len(l))
            l1 == IF ~islast THEN [l EXCEPT ![idx] = l[Len(l)]] ELSE l
            l2 == Pop(l1)
            logs2 == Append(logs, Log("DEBUG", "notrecording"))
        IN  IF islast
            THEN IF idx = 1
                 THEN [list |-> l2, ret |-> FALSE, logs |-> logs2, steps |-> steps + 1]
                 ELSE SweepFrom(l2, idx - 1, logs2, steps + 1)
            ELSE SweepFrom(l2, idx, logs2, steps + 1)
    ELSE SweepFrom(l, idx - 1, logs, steps + 1)

\* (variant: the sweep returns after the first span it removes)
SweepOnce(l) ==
    IF \A i \in 1..Len(l) : recording[l[i]]
    THEN [list |-> l, ret |-> TRUE, logs |-> <<>>, steps |-> Len(l)]
    ELSE LET idx == CHOOSE i \in 1..Len(l) :
                        ~recording[l[i]] /\ \A j \in (i + 1)..Len(l) : recording[l[j]]
             l2 == Pop([l EXCEPT ![idx] = l[Len(l)]])
         IN  [list |-> l2, ret |-> l2 # <<>>,
              logs |-> <<Log("DEBUG", "notrecording")>>, steps |-> Len(l) - idx + 1]

\* (variant: the sweep starts over from the end after every removal)
RECURSIVE RestartFrom(_, _, _, _)
RestartFrom(l, idx, logs, steps) ==
    IF idx < 1 THEN [list |-> l, ret |-> TRUE, logs |-> logs, steps |-> steps]
    ELSE IF ~IsRecording(l[idx]) THEN
        LET l2 == RemoveAt(l, idx)
            logs2 == Append(logs, Log("DEBUG", "notrecording"))
        IN  IF l2 = <<>>
            THEN [list |-> l2, ret |-> FALSE, logs |-> logs2, steps |-> steps + 1]
            ELSE RestartFrom(l2, Len(l2), logs2, steps + 1)
    ELSE RestartFrom(l, idx - 1, logs, steps + 1)

SweepRestarting(l) == RestartFrom(l, Len(l), <<>>, 0)

\* _remove_nonrecording(spanlist): idx = len(spanlist) - 1, then the loop
RemoveNonrecording(l) == SweepFrom(l, Len(l), <<>>, 0)

\* ------------------------------------------------------------- trysetip
\* (variant: the failure is logged at DEBUG whatever the caller asked for)
FailureLogAtDebug(loglevel) == Log("DEBUG", "failed")

\* The record logged when conn.sock or sock.getpeername() raises.
FailureLog(loglevel) == Log(loglevel, "failed")

\* (variant: a span that already has the attribute keeps it)
StampUnset(at, l, ip) ==
    [s \in Spans |-> IF s \in Range(l) /\ at[s] = NoAttr THEN ip ELSE at[s]]

\* for span in spanlist: span.set_attribute(NET_PEER_IP, ip)
StampAll(at, l, ip) == [s \in Spans |-> IF s \in Range(l) THEN ip ELSE at[s]]

\* One call of trysetip on a path whose _getstate() is st, with list objects
\* hp, attributes at, conn.sock in state sk, at log level loglevel.
\* ret: "true" / "false" (the value returned) or "raise" (an exception left
\* the call); logs: the records emitted; stamped: the spans set_attribute
\* was called on; sockRead: whether conn.sock was read.
CallRec(sk, loglevel, ret, logs, stamped, sockRead) ==
    [sk |-> sk, level |-> loglevel, ret |-> ret, logs |-> logs,
     stamped |-> stamped, sockRead |-> sockRead]

TrySetIp(st, hp, at, sk, loglevel) ==
    IF st = NoState
    THEN [heap |-> hp, attr |-> at,
          call |-> CallRec(sk, loglevel, "true", <<>>, {}, FALSE)]
    ELSE IF hp[st] = <<>>
    THEN [heap |-> hp, attr |-> at,
          call |-> CallRec(sk, loglevel, "true", <<>>, {}, FALSE)]
    ELSE
        LET sw == RemoveNonrecording(hp[st])
            hp1 == [hp EXCEPT ![st] = sw.list]
            got == Append(sw.logs, Log("DEBUG", "gotsocket"))
        IN  IF ~sw.ret
            THEN [heap |-> hp1, attr |-> at,
                  call |-> CallRec(sk, loglevel, "true", sw.logs, {}, FALSE)]
            ELSE IF sk = "none"
            THEN [heap |-> hp1, attr |-> at,
                  call |-> CallRec(sk, loglevel, "false", got, {}, TRUE)]
            ELSE IF sk = "fail"
            THEN [heap |-> hp1, attr |-> at,
                  call |-> CallRec(sk, loglevel, "true",
                                   Append(got, FailureLog(loglevel)), {}, TRUE)]
            ELSE IF sk = "empty"
            \* ip is never bound: the else clause raises UnboundLocalError
            \* at the first span.set_attribute(NET_PEER_IP, ip)
            THEN [heap |-> hp1, attr |-> at,
                  call |-> CallRec(sk, loglevel, "raise", got, {}, TRUE)]
            ELSE [heap |-> hp1, attr |-> StampAll(at, sw.list, sk),
                  call |-> CallRec(sk, loglevel, "true", got, Range(sw.list), TRUE)]

\* ------------------------------------------------------------------ last
\* op, path: the operation and its call path; pre, post: its trysetip calls
\* before and after the real method; real: invocations of the real method;
\* realOutcome: "ok" or "exc", how the real method ended; outcome: what the
\* caller got ("ok", "exc": the real method's exception, "enrich_exc": an
\* exception of the enrichment); scope, how: the scope a scope exit closed
\* and what ended its body.
Op(op, path, pre, post, real, realOutcome, outcome, scope) ==
    [op |-> op, path |-> path, pre |-> pre, post |-> post, real |-> real,
     realOutcome |-> realOutcome, outcome |-> outcome, scope |-> scope,
     how |-> "none"]

Plain(op, path) == Op(op, path, <<>>, <<>>, 0, "none", "ok", <<>>)

\* after an operation none of the properties below looks at
Idle == Plain("idle", 0)

\* ------------------------------------------------------------------ Init
Init ==
    /\ recording = [s \in Spans |-> TRUE]
    /\ attr = [s \in Spans |-> NoAttr]
    /\ heap = [l \in ListIds |-> <<>>]
    /\ cur = [p \in Paths |-> NoState]
    /\ scopes = <<>>
    /\ sock = "none"
    /\ wrapped = [m \in Methods |-> FALSE]
    /\ last = Idle

\* ------------------------------------------------- list objects in memory
\* A list object is alive while a context or an open scope references it.
Referenced(l, cr, scs) ==
    \/ \E p \in Paths : cr[p] = l
    \/ \E i \in 1..Len(scs) : scs[i].list = l

\* Unreferenced list objects are reclaimed.
Collect(hp, cr, scs) ==
    [l \in ListIds |-> IF Referenced(l, cr, scs) THEN hp[l] ELSE <<>>]

\* The identity a newly created list gets.
NewList == CHOOSE l \in ListIds :
    /\ ~Referenced(l, cur, scopes)
    /\ \A k \in ListIds : k < l => Referenced(k, cur, scopes)

\* ------------------------------------------- set_ip_on_next_http_connection
\* (variant: the scope appends to a copy of the list)
StateListCopy(p) == NewList

\* spans = state["need_ip"]: the list object the scope appends to
StateList(p) == cur[p]

\* (variant: the exit leaves the attached context in place)
DetachNothing(cr, sc) == cr

\* context.detach(token): the path's context is the one before the attach
Detach(cr, sc) == [cr EXCEPT ![sc.path] = sc.token]

\* Entry of the context manager up to its yield.
ScopeEnter(p, s) ==
    /\ Len(scopes) < MaxScopes
    /\ IF cur[p] = NoState
       THEN /\ heap' = [heap EXCEPT ![NewList] = <<s>>]
            /\ cur' = [cur EXCEPT ![p] = NewList]
            /\ scopes' = Append(scopes, [span |-> s, path |-> p, kind |-> "create",
                                         list |-> NewList, token |-> cur[p]])
       ELSE /\ heap' = [heap EXCEPT ![StateList(p)] = Append(heap[cur[p]], s)]
            /\ scopes' = Append(scopes, [span |-> s, path |-> p, kind |-> "append",
                                         list |-> StateList(p), token |-> NoState])
            /\ UNCHANGED cur
    /\ last' = Idle
    /\ UNCHANGED <<recording, attr, sock, wrapped>>

\* The finally clause of the context manager, whatever ended the body.
ScopeExit(i, how) ==
    /\ i \in 1..Len(scopes)
    /\ LET sc == scopes[i]
           cur1 == IF sc.kind = "create" THEN Detach(cur, sc) ELSE cur
           heap1 == IF sc.kind = "create" THEN heap
                    ELSE [heap EXCEPT ![sc.list] = ListRemove(@, sc.span)]
       IN  /\ cur' = cur1
           /\ scopes' = RemoveAt(scopes, i)
           /\ heap' = Collect(heap1, cur1, RemoveAt(scopes, i))
           /\ last' = [Plain("exit", sc.path) EXCEPT !.scope = <<sc>>, !.how = how]
    /\ UNCHANGED <<recording, attr, sock, wrapped>>

\* ------------------------------------------------ environment of the module
\* The ambient context of path p is copied to path q (a task or thread
\* started from p): the _ConnectionState object is shared, not copied.
Fork(p, q) ==
    /\ p # q
    /\ cur[q] # cur[p]
    /\ \A i \in 1..Len(scopes) : scopes[i].path # q
    /\ cur' = [cur EXCEPT ![q] = cur[p]]
    /\ heap' = Collect(heap, cur', scopes)
    /\ last' = Idle
    /\ UNCHANGED <<recording, attr, scopes, sock, wrapped>>

\* span.end(): is_recording() becomes False and stays False.
EndSpan(s) ==
    /\ recording[s]
    /\ recording' = [recording EXCEPT ![s] = FALSE]
    /\ last' = Idle
    /\ UNCHANGED <<attr, heap, cur, scopes, sock, wrapped>>

\* The transport or the peer changes the socket outside connect/send
\* (close(), a reset, a new connection object).
SockEvent(ns) ==
    /\ ns \in SockStates
    /\ ns # sock
    /\ sock' = ns
    /\ last' = Idle
    /\ UNCHANGED <<recording, attr, heap, cur, scopes, wrapped>>

\* The socket after the real connect(): ns when it returns, unchanged when
\* it raises.
AfterRealConnect(ns, ro) == IF ro = "ok" THEN ns ELSE sock

\* The socket after the real send(): it opens a socket (auto_open) only when
\* there is none.
AfterRealSend(ns, ro) == IF ro = "ok" /\ sock = "none" THEN ns ELSE sock

\* ------------------------------------------------- _instrumented_connect
InstrumentedConnect(p, ns, ro) ==
    LET sk == AfterRealConnect(ns, ro)
        t == TrySetIp(cur[p], heap, attr, sk, "WARNING")
    IN  IF ro = "exc"
        THEN [heap |-> heap, attr |-> attr, sock |-> sk,
              last |-> Op("connect", p, <<>>, <<>>, 1, ro, "exc", <<>>)]
        ELSE [heap |-> t.heap, attr |-> t.attr, sock |-> sk,
              last |-> Op("connect", p, <<>>, <<t.call>>, 1, ro,
                          IF t.call.ret = "raise" THEN "enrich_exc" ELSE "ok", <<>>)]

\* http.client.HTTPConnection.connect as shipped
OriginalConnect(p, ns, ro) ==
    [heap |-> heap, attr |-> attr, sock |-> AfterRealConnect(ns, ro),
     last |-> Op("connect", p, <<>>, <<>>, 1, ro, ro, <<>>)]

\* ----------------------------------------------------- instrumented_send
\* (variant: the condition of the retry is inverted)
RetryAfterSendInverted(done) == (done # "false")

\* `if not done:` after the real send, done being the pre-send result
RetryAfterSend(done) == (done = "false")

InstrumentedSend(p, ns, ro) ==
    LET t1 == TrySetIp(cur[p], heap, attr, sock, "DEBUG")
        sk == AfterRealSend(ns, ro)
        t2 == TrySetIp(cur[p], t1.heap, t1.attr, sk, "WARNING")
    IN  IF t1.call.ret = "raise"
        THEN [heap |-> t1.heap, attr |-> t1.attr, sock |-> sock,
              last |-> Op("send", p, <<t1.call>>, <<>>, 0, "none", "enrich_exc", <<>>)]
        ELSE IF ro = "exc"
        THEN [heap |-> t1.heap, attr |-> t1.attr, sock |-> sk,
              last |-> Op("send", p, <<t1.call>>, <<>>, 1, ro, "exc", <<>>)]
        ELSE IF RetryAfterSend(t1.call.ret)
        THEN [heap |-> t2.heap, attr |-> t2.attr, sock |-> sk,
              last |-> Op("send", p, <<t1.call>>, <<t2.call>>, 1, ro,
                          IF t2.call.ret = "raise" THEN "enrich_exc" ELSE "ok", <<>>)]
        ELSE [heap |-> t1.heap, attr |-> t1.attr, sock |-> sk,
              last |-> Op("send", p, <<t1.call>>, <<>>, 1, ro, "ok", <<>>)]

\* http.client.HTTPConnection.send as shipped
OriginalSend(p, ns, ro) ==
    [heap |-> heap, attr |-> attr, sock |-> AfterRealSend(ns, ro),
     last |-> Op("send", p, <<>>, <<>>, 1, ro, ro, <<>>)]

\* ------------------------------------------------ calls of the transport
\* conn.connect() on path p; the real connect ends ro and leaves socket ns.
Connect(p, ns, ro) ==
    /\ ns \in SockStates /\ ro \in {"ok", "exc"}
    /\ ro = "exc" => ns = sock
    /\ LET r == IF wrapped["connect"] THEN InstrumentedConnect(p, ns, ro)
                ELSE OriginalConnect(p, ns, ro)
       IN  /\ heap' = r.heap
           /\ attr' = r.attr
           /\ sock' = r.sock
           /\ last' = r.last
    /\ UNCHANGED <<recording, cur, scopes, wrapped>>

\* conn.send(data) on path p.
Send(p, ns, ro) ==
    /\ ns \in SockStates /\ ro \in {"ok", "exc"}
    /\ (ro = "exc" \/ sock # "none") => ns = sock
    /\ LET r == IF wrapped["send"] THEN InstrumentedSend(p, ns, ro)
                ELSE OriginalSend(p, ns, ro)
       IN  /\ heap' = r.heap
           /\ attr' = r.attr
           /\ sock' = r.sock
           /\ last' = r.last
    /\ UNCHANGED <<recording, cur, scopes, wrapped>>

\* A direct call trysetip(conn, loglevel) by transport-integration code.
TrySetIpCall(p, loglevel) ==
    /\ LET t == TrySetIp(cur[p], heap, attr, sock, loglevel)
       IN  /\ heap' = t.heap
           /\ attr' = t.attr
           /\ last' = Op("trysetip", p, <<>>, <<t.call>>, 0, "none",
                         IF t.call.ret = "raise" THEN "enrich_exc" ELSE "ok", <<>>)
    /\ UNCHANGED <<recording, cur, scopes, sock, wrapped>>

\* ------------------------------------------- _instrument / _uninstrument
\* wrapt.wrap_function_wrapper(http.client.HTTPConnection, m, wrapper)
Wrap(w, m) == [w EXCEPT ![m] = TRUE]

\* opentelemetry.instrumentation.utils.unwrap(http.client.HTTPConnection, m):
\* the method is the original again
Unwrap(w, m) == [w EXCEPT ![m] = FALSE]

\* _instrument wraps send and, through instrument_connect, connect
WrapBoth(w) == Wrap(Wrap(w, "send"), "connect")

\* (variant: only send is unwrapped)
UnwrapSendOnly(w) == Unwrap(w, "send")

\* unwrap(HTTPConnection, "send"); unwrap(HTTPConnection, "connect")
UnwrapBoth(w) == Unwrap(Unwrap(w, "send"), "connect")

\* HttpClientInstrumentor().instrument(), on a module that is not
\* instrumented (a second instrument() is refused by the base instrumentor)
Instrument ==
    /\ \A m \in Methods : ~wrapped[m]
    /\ wrapped' = WrapBoth(wrapped)
    /\ last' = Plain("instrument", 0)
    /\ UNCHANGED <<recording, attr, heap, cur, scopes, sock>>

\* HttpClientInstrumentor().uninstrument(), after a matching instrument()
Uninstrument ==
    /\ \E m \in Methods : wrapped[m]
    /\ wrapped' = UnwrapBoth(wrapped)
    /\ last' = Plain("uninstrument", 0)
    /\ UNCHANGED <<recording, attr, heap, cur, scopes, sock>>

\* ------------------------------------------------------------------ Next
\* One logical call path: scopes, the transport's connect/send, direct calls
\* of trysetip, and the instrumentor's install/uninstall.
MainPaths == {1}

Next ==
    \/ \E p \in MainPaths, s \in Spans : ScopeEnter(p, s)
    \/ \E i \in 1..MaxScopes, how \in ExitPaths : ScopeExit(i, how)
    \/ \E s \in Spans : EndSpan(s)
    \/ \E ns \in SockStates : SockEvent(ns)
    \/ \E p \in MainPaths, ns \in SockStates, ro \in {"ok", "exc"} : Connect(p, ns, ro)
    \/ \E p \in MainPaths, ns \in SockStates, ro \in {"ok", "exc"} : Send(p, ns, ro)
    \/ \E p \in MainPaths, lv \in LogLevels : TrySetIpCall(p, lv)
    \/ Instrument
    \/ Uninstrument

Spec == Init /\ [][Next]_vars

\* --------------------------------------------------- concurrent call paths
\* Several call paths with forks of the ambient context, the wrappers
\* installed from the start, and a transport whose calls return: connect()
\* leaves a socket with a peer, send() opens one when there is none.
InitForks ==
    /\ recording = [s \in Spans |-> TRUE]
    /\ attr = [s \in Spans |-> NoAttr]
    /\ heap = [l \in ListIds |-> <<>>]
    /\ cur = [p \in Paths |-> NoState]
    /\ scopes = <<>>
    /\ sock = "none"
    /\ wrapped = WrapBoth([m \in Methods |-> FALSE])
    /\ last = Idle

NextForks ==
    \/ \E p \in Paths, s \in Spans : ScopeEnter(p, s)
    \/ \E i \in 1..MaxScopes, how \in ExitPaths : ScopeExit(i, how)
    \/ \E p \in Paths, q \in Paths : Fork(p, q)
    \/ \E s \in Spans : EndSpan(s)
    \/ \E p \in Paths : Connect(p, "ipA", "ok")
    \/ \E p \in Paths : Send(p, "ipA", "ok")

SpecForks == InitForks /\ [][NextForks]_vars

\* ------------------------------------------------- the sweep on its own
\* _remove_nonrecording called on any list of at most MaxLen spans, under any
\* assignment of recording states; no span ends while the sweep runs.
SweepInputs == UNION {[1..n -> Spans] : n \in 1..MaxLen}

InitSweep ==
    /\ recording \in [Spans -> BOOLEAN]
    /\ attr = [s \in Spans |-> NoAttr]
    /\ \E l \in SweepInputs : heap = [k \in ListIds |-> IF k = 1 THEN l ELSE <<>>]
    /\ cur = [p \in Paths |-> IF p = 1 THEN 1 ELSE NoState]
    /\ scopes = <<>>
    /\ sock = "none"
    /\ wrapped = [m \in Methods |-> FALSE]
    /\ last = Idle

\* What one run of the sweep did: the list it was given, the value it
\* returned, the records it logged and the iterations of its loop.
SweepRec(input, sw) ==
    [input |-> input, ret |-> sw.ret, logs |-> sw.logs, steps |-> sw.steps]

\* _remove_nonrecording(state["need_ip"]) on the non-empty list of path p
Sweep(p) ==
    /\ cur[p] # NoState
    /\ heap[cur[p]] # <<>>
    /\ LET sw == RemoveNonrecording(heap[cur[p]])
       IN  /\ heap' = [heap EXCEPT ![cur[p]] = sw.list]
           /\ last' = [Plain("sweep", p) EXCEPT
                           !.post = <<SweepRec(heap[cur[p]], sw)>>]
    /\ UNCHANGED <<recording, attr, cur, scopes, sock, wrapped>>

NextSweep == \E p \in MainPaths : Sweep(p)

SpecSweep == InitSweep /\ [][NextSweep]_vars

\* ============================================================ properties
\* The trysetip calls of the last operation, in the order they ran.
Calls(l) == l.pre \o l.post

CaptureOps == {"connect", "send", "trysetip"}
WrapperOps == {"connect", "send"}

\* The list a capture attempt on path p reads, <<>> when there is no state.
ListOf(cr, hp, p) == IF cr[p] = NoState THEN <<>> ELSE hp[cr[p]]

CountLogs(logs, level) == Cardinality({i \in 1..Len(logs) : logs[i].level = level})

CountMsg(logs, msg) == Cardinality({i \in 1..Len(logs) : logs[i].msg = msg})

\* C2: trysetip returns false exactly when a state exists, a recording span
\* remains after the sweep and conn.sock is None; in every other case it
\* returns true.
C2_FalseIffNotConnected ==
    last.op \in CaptureOps =>
        \A i \in 1..Len(Calls(last)) :
            LET c == Calls(last)[i]
            IN  /\ c.ret = "false" <=>
                       (c.sk = "none" /\ ListOf(cur, heap, last.path) # <<>>)
                /\ c.ret # "false" => c.ret = "true"

\* C4: whatever the socket lookup and the peer-address query do, the wrapped
\* connect and send invoke the real method exactly once and the caller gets
\* exactly its result or its exception.
C4_EnrichmentNeverAffectsCall ==
    (last.op \in WrapperOps /\ wrapped[last.op]) =>
        /\ last.real = 1
        /\ last.outcome = last.realOutcome

\* A call in which the socket existed and the peer-address query failed.
PeerQueryFailed(c) == c.sockRead /\ c.sk = "fail"

\* C5 as stated: a trysetip call whose peer-address query fails logs exactly
\* one record at the caller-supplied level, stamps no span, raises nothing
\* and returns true.
C5_OneRecordAtCallerLevel ==
    last.op \in CaptureOps =>
        \A i \in 1..Len(Calls(last)) :
            LET c == Calls(last)[i]
            IN  PeerQueryFailed(c) =>
                    /\ CountLogs(c.logs, c.level) = 1
                    /\ c.stamped = {}
                    /\ c.ret = "true"

\* C5 amended: such a call logs exactly one failure record, at the
\* caller-supplied level; every other record of the call is a DEBUG trace
\* record (one "Got socket", one "Span is not recording" per dropped span);
\* it stamps no span, raises nothing and returns true.
C5_OneFailureRecord ==
    last.op \in CaptureOps =>
        \A i \in 1..Len(Calls(last)) :
            LET c == Calls(last)[i]
            IN  PeerQueryFailed(c) =>
                    /\ CountMsg(c.logs, "failed") = 1
                    /\ \A k \in 1..Len(c.logs) :
                           IF c.logs[k].msg = "failed"
                           THEN c.logs[k].level = c.level
                           ELSE c.logs[k].level = "DEBUG"
                    /\ CountMsg(c.logs, "gotsocket") = 1
                    /\ c.level = "WARNING" => CountLogs(c.logs, c.level) = 1
                    /\ c.stamped = {}
                    /\ c.ret = "true"

\* a failing peer-address query met at WARNING level after a dead span was
\* swept from the list
C5_Witness ==
    /\ last.op = "connect"
    /\ Len(last.post) = 1
    /\ PeerQueryFailed(last.post[1])
    /\ CountMsg(last.post[1].logs, "notrecording") = 1
    /\ ListOf(cur, heap, last.path) # <<>>

\* C6: a span that stopped recording before a capture attempt is dropped from
\* the list by that attempt, is never stamped by it or by a later attempt,
\* and does not keep the recording spans of the list from being stamped.
C6_DeadSpansDroppedNeverStamped ==
    [][ /\ \A s \in Spans : ~recording[s] => attr'[s] = attr[s]
        /\ (last'.op \in CaptureOps /\ Calls(last') # <<>>) =>
               LET before == ListOf(cur, heap, last'.path)
                   after == ListOf(cur', heap', last'.path)
               IN  /\ \A s \in Range(before) : ~recording[s] =>
                          /\ s \notin Range(after)
                          /\ \A i \in 1..Len(Calls(last')) :
                                 s \notin Calls(last')[i].stamped
                   /\ \A s \in Range(before) : recording[s] =>
                          /\ s \in Range(after)
                          /\ \A i \in 1..Len(Calls(last')) :
                                 Calls(last')[i].sk \in IPs =>
                                     /\ s \in Calls(last')[i].stamped
                                     /\ attr'[s] = Calls(last')[i].sk
      ]_vars

\* a capture that dropped a dead span and stamped the recording one beside it
C6_Witness ==
    /\ last.op \in CaptureOps
    /\ Len(last.post) = 1
    /\ CountMsg(last.post[1].logs, "notrecording") = 1
    /\ last.post[1].stamped # {}
    /\ \E s \in Spans : ~recording[s] /\ attr[s] = NoAttr
    /\ \E s \in Spans : recording[s] /\ attr[s] = sock

C10_UninstallRestores ==
    [][ /\ last'.op = "uninstrument" => \A m \in Methods : ~wrapped'[m]
        /\ last'.op = "instrument" => \A m \in Methods : wrapped'[m]
        /\ (last'.op \in WrapperOps /\ \A m \in Methods : ~wrapped[m]) =>
               /\ Calls(last') = <<>>
               /\ last'.real = 1
               /\ last'.outcome = last'.realOutcome
               /\ attr' = attr
               /\ heap' = heap
      ]_vars

\* a connect that found a peer while a recording span was waiting, after the
\* wrappers were removed: the span stays unstamped
C10_Witness ==
    /\ last.op = "connect"
    /\ \A m \in Methods : ~wrapped[m]
    /\ sock \in IPs
    /\ \E s \in Range(ListOf(cur, heap, last.path)) : recording[s] /\ attr[s] = NoAttr
    /\ \E s \in Spans : attr[s] # NoAttr

\* C1: once a wrapped connect or send has completed on the path of an open
\* scope while the socket's peer address is (ip, port), the span of that
\* scope, if it has been recording throughout, carries NET_PEER_IP = ip.
C1_RegisteredSpanGetsPeerIp ==
    (last.op \in WrapperOps /\ wrapped[last.op] /\ last.outcome = "ok" /\ sock \in IPs) =>
        \A i \in 1..Len(scopes) :
            (scopes[i].path = last.path /\ recording[scopes[i].span]) =>
                attr[scopes[i].span] = sock

\* The span of scope sc is in the list a capture attempt on sc's path reads.
Registered(cr, hp, sc) == sc.span \in Range(ListOf(cr, hp, sc.path))

\* C8: with s1 registered before s2 on the same path, a successful capture
\* stamps both with the same IP, and the exit of s1's scope, whenever it
\* comes, leaves s2 a member of the list the capture trigger reads.
C8_NestedScopesIndependent ==
    [][ /\ (last'.op \in CaptureOps /\ last'.outcome = "ok" /\ sock' \in IPs
            /\ \E k \in 1..Len(Calls(last')) : Calls(last')[k].stamped # {}) =>
               \A i, j \in 1..Len(scopes) :
                   (i < j /\ scopes[i].path = last'.path /\ scopes[j].path = last'.path
                    /\ recording[scopes[i].span] /\ recording[scopes[j].span]) =>
                       /\ attr'[scopes[i].span] = sock'
                       /\ attr'[scopes[j].span] = sock'
        /\ last'.op = "exit" =>
               \A i, j \in 1..Len(scopes) :
                   (i < j /\ scopes[i].span # scopes[j].span
                    /\ last'.scope = <<scopes[i]>> /\ scopes' = RemoveAt(scopes, i)
                    /\ scopes[j].path = scopes[i].path
                    /\ Registered(cur, heap, scopes[j])) =>
                       Registered(cur', heap', scopes[j])
      ]_vars

RegisteredOn(scs, p) == {scs[i].span : i \in {k \in 1..Len(scs) : scs[k].path = p}}

\* The list objects something still references that hold span s.
ActiveListsOf(s) == {l \in ListIds : Referenced(l, cur, scopes) /\ s \in Range(heap[l])}

\* C11 as stated: whatever the interleaving of scope entries and exits,
\* context forks and connect/send events on two paths, a span registered on
\* one path only is not in the list a capture attempt on the other path
\* reads and is not stamped by it, and a span that at most one open scope
\* registers is in at most one active list.
C11_PathsIndependent ==
    [][ /\ \A s \in Spans :
               Cardinality({i \in 1..Len(scopes) : scopes[i].span = s}) <= 1 =>
                   Cardinality(ActiveListsOf(s)) <= 1
        /\ (last'.op \in CaptureOps /\ Calls(last') # <<>>) =>
               \A s \in Spans :
                   (/\ s \notin RegisteredOn(scopes, last'.path)
                    /\ \E q \in Paths \ {last'.path} : s \in RegisteredOn(scopes, q)) =>
                       /\ s \notin Range(ListOf(cur, heap, last'.path))
                       /\ \A i \in 1..Len(Calls(last')) : s \notin Calls(last')[i].stamped
      ]_vars

\* The spans of list q that are not recording.
Dead(q) == {i \in 1..Len(q) : ~recording[q[i]]}

\* C12: run on a non-empty list, _remove_nonrecording leaves the list holding
\* exactly the recording spans of its input, each as often as the input held
\* it, and none of the others; it returns False exactly when the list is
\* empty afterwards.
C12_SweepKeepsRecordingSpans ==
    last.op = "sweep" =>
        LET c == last.post[1]
            after == heap[cur[last.path]]
        IN  /\ \A s \in Spans :
                   Count(after, s) = IF recording[s] THEN Count(c.input, s) ELSE 0
            /\ Len(after) = Len(c.input) - Cardinality(Dead(c.input))
            /\ c.ret = FALSE <=> after = <<>>

\* the sweep took a dead span out of the middle of a list of three or more
\* (swap with the last element) and left recording spans behind
C12_Witness ==
    /\ last.op = "sweep"
    /\ Len(last.post[1].input) >= 3
    /\ last.post[1].steps > Len(last.post[1].input)
    /\ last.post[1].ret
    /\ Len(heap[cur[last.path]]) >= 2
    /\ Len(heap[cur[last.path]]) < Len(last.post[1].input)

\* C18: the loop of _remove_nonrecording ends on every list, with recording
\* states fixed: it makes one iteration per element of the input and one
\* more for every removal that leaves the index where it was, so never more
\* than the length of the input plus the number of its dead spans.
C18_SweepTerminates ==
    last.op = "sweep" =>
        LET c == last.post[1]
        IN  /\ c.steps >= Len(c.input)
            /\ c.steps <= Len(c.input) + Cardinality(Dead(c.input))
            /\ c.ret \in BOOLEAN
            /\ Len(c.logs) = Cardinality(Dead(c.input))

\* the sweep ended after the index stayed in place twice: two dead spans
\* were removed by a swap with the last element
C18_Witness ==
    /\ last.op = "sweep"
    /\ last.post[1].steps >= Len(last.post[1].input) + 2
    /\ heap[cur[last.path]] # <<>>

\* The no-op conditions of trysetip on path p: no state, an empty list, or a
\* list none of whose spans is recording.
NoOpCondition(p) == \A s \in Range(ListOf(cur, heap, p)) : ~recording[s]

FailureLogged(l) ==
    /\ l.op \in CaptureOps
    /\ \E i \in 1..Len(Calls(l)) : CountMsg(Calls(l)[i].logs, "failed") > 0

\* C14: after a capture attempt has logged a peer-address failure, the next
\* wrapped connect or send on the same path and the same socket, with the
\* same spans still waiting, neither queries the peer address nor logs a
\* failure.
C14_FailureIsTerminal ==
    [][ (/\ FailureLogged(last)
         /\ last'.op \in WrapperOps /\ wrapped[last'.op]
         /\ last'.path = last.path
         /\ sock = "fail" /\ sock' = sock
         /\ ListOf(cur, heap, last'.path) # <<>>
         /\ \A s \in Range(ListOf(cur, heap, last'.path)) : recording[s]) =>
            \A i \in 1..Len(Calls(last')) :
                /\ ~Calls(last')[i].sockRead
                /\ CountMsg(Calls(last')[i].logs, "failed") = 0
      ]_vars

\* The scope the step opened, when the step is a scope entry.
Entered(scs1, scs2) == Len(scs2) = Len(scs1) + 1 /\ SubSeq(scs2, 1, Len(scs1)) = scs1

\* C15: a scope entered without a state installs, on its own path only, a
\* context value holding the new list [span]; whatever ends its body, its
\* exit puts back on its path the context that was current at its entry and
\* touches no other path's context.  A scope entered with a state changes
\* no context, at entry or at exit.
C15_AttachDetachRestores ==
    [][ /\ Entered(scopes, scopes') =>
               LET sc == scopes'[Len(scopes')]
               IN  IF cur[sc.path] = NoState
                   THEN /\ sc.kind = "create"
                        /\ sc.token = cur[sc.path]
                        /\ ~Referenced(sc.list, cur, scopes)
                        /\ cur'[sc.path] = sc.list
                        /\ heap'[sc.list] = <<sc.span>>
                        /\ \A q \in Paths \ {sc.path} : cur'[q] = cur[q]
                   ELSE /\ sc.kind = "append"
                        /\ cur' = cur
        /\ last'.op = "exit" =>
               LET sc == last'.scope[1]
               IN  /\ last'.how \in ExitPaths
                   /\ last'.outcome = "ok"
                   /\ IF sc.kind = "create"
                      THEN /\ cur'[sc.path] = sc.token
                           /\ sc.token = NoState
                           /\ \A q \in Paths \ {sc.path} : cur'[q] = cur[q]
                      ELSE cur' = cur
      ]_vars

\* the scope that created the state was cancelled while a scope that
\* appended on the same path is still open: the path is back to no state
C15_Witness ==
    /\ last.op = "exit" /\ last.how = "cancel"
    /\ last.scope[1].kind = "create"
    /\ cur[last.path] = NoState
    /\ \E i \in 1..Len(scopes) :
           /\ scopes[i].path = last.path /\ scopes[i].kind = "append"
           /\ scopes[i].list = last.scope[1].list

\* The open scopes that appended span s to list l.
Appenders(scs, l, s) ==
    {i \in 1..Len(scs) : scs[i].kind = "append" /\ scs[i].list = l /\ scs[i].span = s}

\* C16: a scope entered with a state appends its span to the list object of
\* that state and creates no state: no context changes, no other list
\* changes, and every path whose context references the state reads the
\* span at once.  While the scope is open and its span recording, every
\* context that references the state keeps reading the span.
C16_AppendInPlaceSharedWithForks ==
    [][ /\ (Entered(scopes, scopes') /\ cur[scopes'[Len(scopes')].path] # NoState) =>
               LET sc == scopes'[Len(scopes')]
               IN  /\ sc.list = cur[sc.path]
                   /\ cur' = cur
                   /\ heap'[sc.list] = Append(heap[sc.list], sc.span)
                   /\ \A l \in ListIds \ {sc.list} : heap'[l] = heap[l]
                   /\ \A q \in Paths : cur[q] = cur[sc.path] =>
                          Count(ListOf(cur', heap', q), sc.span) =
                              Count(ListOf(cur, heap, q), sc.span) + 1
        /\ \A i \in 1..Len(scopes') :
               (scopes'[i].kind = "append" /\ recording'[scopes'[i].span]) =>
                   /\ Count(heap'[scopes'[i].list], scopes'[i].span) >=
                          Cardinality(Appenders(scopes', scopes'[i].list, scopes'[i].span))
                   /\ \A q \in Paths : cur'[q] = scopes'[i].list =>
                          scopes'[i].span \in Range(ListOf(cur', heap', q))
      ]_vars

\* a scope on a forked path has appended its span to the list it shares with
\* the path it was forked from, and a connect on that other path stamped it
C16_Witness ==
    /\ last.op = "connect" /\ Len(last.post) = 1
    /\ \E i \in 1..Len(scopes) :
           /\ scopes[i].kind = "append"
           /\ scopes[i].path # last.path
           /\ scopes[i].list = cur[last.path]
           /\ scopes[i].span \in last.post[1].stamped
           /\ scopes[i].span \notin RegisteredOn(scopes, last.path)
           /\ attr[scopes[i].span] = sock

\* C17: whatever a capture attempt ends with (captured, not yet connected,
\* peer-address failure, or the error of an empty peer host), the list it
\* read holds every span that was recording at the call as often as
\* before; and when the socket has a peer, every such span carries that
\* peer's IP afterwards, whatever NET_PEER_IP it carried before.
C17_RecordingSpansStayAndAreRestamped ==
    [][ (last'.op \in CaptureOps /\ Calls(last') # <<>>) =>
            LET before == ListOf(cur, heap, last'.path)
                after == ListOf(cur', heap', last'.path)
            IN  /\ \A s \in Spans : recording[s] => Count(after, s) = Count(before, s)
                /\ \A i \in 1..Len(Calls(last')) :
                       LET c == Calls(last')[i]
                       IN  /\ c.ret \in {"true", "false", "raise"}
                           /\ c.stamped \subseteq Range(after)
                           /\ (c.sockRead /\ c.sk \in IPs) =>
                                  \A s \in Range(before) : recording[s] =>
                                      /\ s \in c.stamped
                                      /\ attr'[s] = c.sk
      ]_vars

\* two spans shared a list; one ended carrying the first peer's IP, and a
\* connect to another peer has now stamped the other span, which had been
\* stamped together with it, with the later peer's IP
C17_Witness ==
    /\ last.op = "connect" /\ Len(last.post) = 1
    /\ Len(scopes) = 2
    /\ scopes[1].kind = "create" /\ scopes[2].kind = "append"
    /\ scopes[2].list = scopes[1].list /\ cur[last.path] = scopes[1].list
    /\ scopes[1].span # scopes[2].span
    /\ recording[scopes[1].span] /\ ~recording[scopes[2].span]
    /\ sock \in IPs
    /\ attr[scopes[2].span] \in IPs \ {sock}
    /\ attr[scopes[1].span] = sock
    /\ scopes[1].span \in last.post[1].stamped

====
